---- MODULE Spec2Model ----
(***************************************************************************)
(* Nutrition Telegram bot: the webhook server (bot.py), the agent          *)
(* orchestrator (oaimain.py) and the tool layer (oaitools.py).             *)
(*                                                                         *)
(* Text is a sequence of one-character strings.  A JSON document is a      *)
(* tagged value: Num (an integer), Dec (a decimal literal, in hundredths),  *)
(* Str, Null, Arr (a sequence), Obj (a function from keys to JSON values), *)
(* or BadJson for text json.loads rejects.  Decimals become binary64       *)
(* floats when they are added or formatted.                                *)
(***************************************************************************)
EXTENDS Integers, Sequences, FiniteSets, TLC

VARIABLES
    now,                 \* datetime.now(), as a day index into DATES
    file,                \* MEAL_FILE: does it exist, and the mapping it holds
    pc,                  \* per process: where its request handler stands
    req,                 \* per process: the payload of the request in hand
    user_conversations,  \* per process: user id -> list of messages
    sent,                \* per process: sendMessage calls of the request in hand
    resp,                \* per process: what telegram_webhook ended with
    result,              \* per process: outcome of executor.invoke
    loc,                 \* per process: locals of save_meal_data in flight
    budget,              \* tool calls the executor may still make
    nreq,                \* requests received so far
    last,                \* the last tool call that returned: input, file before, output
    saved,               \* saves that returned the success message, in order
    overlapped,          \* some save loaded the file while another was in flight
    toolIn,              \* argument of the pure tool under check
    toolOut              \* its return value

vars == <<now, file, pc, req, user_conversations, sent, resp, result, loc,
          budget, nreq, last, saved, overlapped, toolIn, toolOut>>

----------------------------------------------------------------------------
(* Bounds of the model *)

MaxWords == 2
MaxFoods == 3
MaxDay == 3
MaxStoreOps == 3
MaxAgentTools == 1
MaxRequests == 2

----------------------------------------------------------------------------
(* JSON values *)

\* An integer literal n, and a decimal literal of h hundredths (0.05 is Dec(5))
Num(n) == [t |-> "num", n |-> n]
Dec(h) == [t |-> "dec", h |-> h]
Str(s) == [t |-> "str", s |-> s]
Arr(a) == [t |-> "arr", a |-> a]
Obj(o) == [t |-> "obj", o |-> o]
Null == [t |-> "null"]
BadJson == [t |-> "bad"]
EmptyDict == Obj(<<>>)

IsDict(v) == v.t = "obj"
HasKey(d, k) == k \in DOMAIN d.o
\* dict.get(k, default)
Get(d, k, default) == IF HasKey(d, k) THEN d.o[k] ELSE default
\* Python truthiness of a JSON value
Truthy(v) ==
    CASE v.t = "null" -> FALSE
      [] v.t = "num" -> v.n # 0
      [] v.t = "dec" -> v.h # 0
      [] v.t = "str" -> v.s # ""
      [] v.t = "arr" -> Len(v.a) > 0
      [] v.t = "obj" -> DOMAIN v.o # {}
      [] OTHER -> FALSE

----------------------------------------------------------------------------
(* Python floats: IEEE 754 binary64, round to nearest, ties to even.
   A float is held exactly, as Limbs limbs of LimbBits bits, least significant
   first, counting units of 2^-(FracLimbs * LimbBits); every binary64 value
   between 0.01 and 2^LimbBits is a whole number of such units. *)

MantissaBits == 53
LimbBits == 20
Limbs == 4
FracLimbs == 3
Base == 2^LimbBits

FloatZero == [l \in 1..Limbs |-> 0]

RECURSIVE AddLimbs(_, _, _, _)
AddLimbs(a, b, l, carry) ==
    IF l > Limbs THEN <<>>
    ELSE LET s == a[l] + b[l] + carry
         IN  <<s % Base>> \o AddLimbs(a, b, l + 1, s \div Base)

RECURSIVE ScaleLimbs(_, _, _, _)
ScaleLimbs(a, k, l, carry) ==
    IF l > Limbs THEN <<>>
    ELSE LET s == a[l] * k + carry
         IN  <<s % Base>> \o ScaleLimbs(a, k, l + 1, s \div Base)

\* Long division of the limbs n by the small number d, from the top limb down
RECURSIVE DivLimbs(_, _, _, _)
DivLimbs(n, d, l, rem) ==
    IF l = 0 THEN [q |-> <<>>, exact |-> rem = 0]
    ELSE LET cur == rem * Base + n[l]
             low == DivLimbs(n, d, l - 1, cur % d)
         IN  [q |-> Append(low.q, cur \div d), exact |-> low.exact]

BitLen(v) == IF v = 0 THEN 0 ELSE CHOOSE k \in 1..LimbBits : 2^(k - 1) <= v /\ v < 2^k

\* Position of the leading one bit, counted from 1 at the least significant bit
Msb(x) ==
    IF x = FloatZero THEN 0
    ELSE LET l == CHOOSE m \in 1..Limbs : x[m] # 0 /\ \A j \in (m + 1)..Limbs : x[j] = 0
         IN  (l - 1) * LimbBits + BitLen(x[l])

BitAt(x, i) == (x[((i - 1) \div LimbBits) + 1] \div (2^((i - 1) % LimbBits))) % 2

UnitAt(i) ==
    [l \in 1..Limbs |-> IF l = ((i - 1) \div LimbBits) + 1 THEN 2^((i - 1) % LimbBits) ELSE 0]

ClearLow(x, n) ==
    [l \in 1..Limbs |->
        IF n >= l * LimbBits THEN 0
        ELSE IF n <= (l - 1) * LimbBits THEN x[l]
        ELSE x[l] - (x[l] % (2^(n - (l - 1) * LimbBits)))]

\* The binary64 nearest to an exact value: keep MantissaBits bits from the leading
\* one, round on the rest (inexact: the value has a tail below the last unit)
RoundToDouble(x, inexact) ==
    LET p == Msb(x)
    IN  IF p <= MantissaBits THEN x
        ELSE LET cut == p - MantissaBits
                 rest == inexact \/ \E i \in 1..(cut - 1) : BitAt(x, i) = 1
                 up == BitAt(x, cut) = 1 /\ (rest \/ BitAt(x, cut + 1) = 1)
                 kept == ClearLow(x, cut)
             IN  IF up THEN AddLimbs(kept, UnitAt(cut + 1), 1, 0) ELSE kept

\* json.loads of a decimal literal of h hundredths
ParseFloat(h) ==
    LET d == DivLimbs([l \in 1..Limbs |-> IF l = FracLimbs + 1 THEN h ELSE 0], 100, Limbs, 0)
    IN  RoundToDouble(d.q, ~d.exact)

\* a + b on floats
FloatAdd(a, b) == RoundToDouble(AddLimbs(a, b, 1, 0), FALSE)

\* The value of a JSON number in arithmetic; an int is held as the float equal to it
\* (sums and formats of ints this small are exact either way)
ToFloat(v) == IF v.t = "num" THEN ParseFloat(100 * v.n) ELSE ParseFloat(v.h)
IsNumber(v) == v.t \in {"num", "dec"}

\* The integer nearest to an exact value, ties to even
RoundHalfEven(x) ==
    LET whole == x[FracLimbs + 1]
        half == BitAt(x, FracLimbs * LimbBits) = 1
        rest == \E i \in 1..(FracLimbs * LimbBits - 1) : BitAt(x, i) = 1
    IN  IF ~half THEN whole
        ELSE IF rest THEN whole + 1
        ELSE IF whole % 2 = 0 THEN whole ELSE whole + 1

\* f"{x:.0f}": the digits of the nearest integer
Fmt0(x) == RoundHalfEven(x)

\* f"{x:.1f}": the nearest tenth, as <<integer part, tenths digit>>
Fmt1(x) == LET t == RoundHalfEven(ScaleLimbs(x, 10, 1, 0)) IN <<t \div 10, t % 10>>

----------------------------------------------------------------------------
(* Text *)

\* str.lower(), on the letters the vocabulary uses
LowerChar(c) ==
    CASE c = "B" -> "b" [] c = "C" -> "c" [] c = "E" -> "e" [] c = "H" -> "h"
      [] c = "L" -> "l" [] c = "N" -> "n" [] c = "U" -> "u" [] OTHER -> c

Lower(s) == [i \in 1..Len(s) |-> LowerChar(s[i])]

\* `sub in s`
Contains(s, sub) ==
    \E i \in 0..(Len(s) - Len(sub)) :
        \A j \in 1..Len(sub) : s[i + j] = sub[j]

\* str.startswith
StartsWith(s, prefix) ==
    /\ Len(s) >= Len(prefix)
    /\ \A j \in 1..Len(prefix) : s[j] = prefix[j]

RECURSIVE LStrip(_)
LStrip(s) == IF s # <<>> /\ Head(s) = " " THEN LStrip(Tail(s)) ELSE s

RECURSIVE RStrip(_)
RStrip(s) ==
    IF s # <<>> /\ s[Len(s)] = " " THEN RStrip(SubSeq(s, 1, Len(s) - 1)) ELSE s

\* str.strip()
Strip(s) == RStrip(LStrip(s))

----------------------------------------------------------------------------
(* detect_meal_type *)

K_breakfast == <<"b", "r", "e", "a", "k", "f", "a", "s", "t">>
K_morning == <<"m", "o", "r", "n", "i", "n", "g">>
K_lunch == <<"l", "u", "n", "c", "h">>
K_noon == <<"n", "o", "o", "n">>
K_afternoon == <<"a", "f", "t", "e", "r", "n", "o", "o", "n">>
K_dinner == <<"d", "i", "n", "n", "e", "r">>
K_evening == <<"e", "v", "e", "n", "i", "n", "g">>
K_night == <<"n", "i", "g", "h", "t">>
K_supper == <<"s", "u", "p", "p", "e", "r">>
K_snack == <<"s", "n", "a", "c", "k">>
K_snacking == <<"s", "n", "a", "c", "k", "i", "n", "g">>

BreakfastWords == {K_breakfast, K_morning}
LunchWords == {K_lunch, K_noon, K_afternoon}
DinnerWords == {K_dinner, K_evening, K_night, K_supper}
SnackWords == {K_snack, K_snacking}

\* any(word in text for word in words)
AnyIn(words, text) == \E word \in words : Contains(text, word)

\* The mutant of detect_meal_type: the dinner test moved before the lunch test.
detect_meal_type_dinner_first(user_input) ==
    LET text == Lower(user_input)
    IN  IF AnyIn(BreakfastWords, text) THEN "breakfast"
        ELSE IF AnyIn(DinnerWords, text) THEN "dinner"
        ELSE IF AnyIn(LunchWords, text) THEN "lunch"
        ELSE IF AnyIn(SnackWords, text) THEN "snack"
        ELSE "unknown"

detect_meal_type(user_input) ==
    LET text == Lower(user_input)
    IN  IF AnyIn(BreakfastWords, text) THEN "breakfast"
        ELSE IF AnyIn(LunchWords, text) THEN "lunch"
        ELSE IF AnyIn(DinnerWords, text) THEN "dinner"
        ELSE IF AnyIn(SnackWords, text) THEN "snack"
        ELSE "unknown"

----------------------------------------------------------------------------
(* format_nutrition_facts *)

NutrientKeys ==
    {"nf_calories", "nf_protein", "nf_total_carbohydrate", "nf_total_fat",
     "nf_dietary_fiber", "nf_sugars"}

\* `"foods" in data` for parsed JSON: key test on a dict, element test on a list,
\* TypeError ("raise") on a number or null
InData(k, data) ==
    CASE data.t = "obj" -> IF HasKey(data, k) THEN "yes" ELSE "no"
      [] data.t = "arr" ->
            IF \E i \in 1..Len(data.a) : data.a[i] = Str(k) THEN "yes" ELSE "no"
      [] data.t \in {"num", "dec", "null"} -> "raise"

\* food.get(key, 0) can be added to a number
Addable(food, key) == IsDict(food) /\ IsNumber(Get(food, key, Num(0)))

\* sum(food.get(key, 0) for food in foods): float additions, left to right from 0
RECURSIVE SumField(_, _)
SumField(foods, key) ==
    IF foods = <<>> THEN FloatZero
    ELSE FloatAdd(SumField(SubSeq(foods, 1, Len(foods) - 1), key),
                  ToFloat(Get(foods[Len(foods)], key, Num(0))))

NoData == [kind |-> "nodata"]
FormatError == [kind |-> "error"]

\* The rendered breakdown: the six totals lines and the numbered item lines
Breakdown(foods) ==
    [kind |-> "breakdown",
     calories |-> Fmt0(SumField(foods, "nf_calories")),
     protein |-> Fmt1(SumField(foods, "nf_protein")),
     carbs |-> Fmt1(SumField(foods, "nf_total_carbohydrate")),
     fat |-> Fmt1(SumField(foods, "nf_total_fat")),
     fiber |-> Fmt1(SumField(foods, "nf_dietary_fiber")),
     sugar |-> Fmt1(SumField(foods, "nf_sugars")),
     items |-> [i \in 1..Len(foods) |->
                  [name |-> Get(foods[i], "food_name", Str("Unknown")),
                   kcal |-> Fmt0(ToFloat(Get(foods[i], "nf_calories", Num(0))))]]]

format_nutrition_facts(nutrition_json) ==
    LET data == nutrition_json
    IN  IF data.t = "bad" THEN FormatError
        ELSE IF InData("foods", data) = "raise" THEN FormatError
        ELSE IF InData("foods", data) = "no" THEN NoData
        ELSE IF data.t # "obj" THEN FormatError
        ELSE IF ~Truthy(data.o["foods"]) THEN NoData
        ELSE LET foods == data.o["foods"]
             IN  IF foods.t = "arr"
                    /\ \A i \in 1..Len(foods.a) :
                          \A key \in NutrientKeys : Addable(foods.a[i], key)
                 THEN Breakdown(foods.a)
                 ELSE FormatError

----------------------------------------------------------------------------
(* The meal log: save_meal_data and get_meal_history *)

\* datetime.strftime("%Y-%m-%d") of the days the clock runs through
DATES ==
    <<"2024-12-30", "2024-12-31", "2025-01-01", "2025-01-02", "2025-01-03",
      "2025-01-04", "2025-01-05">>
Strftime(day) == DATES[day]

NoFile == [exists |-> FALSE, meals |-> <<>>]

\* json.load(f) when the file exists, {} otherwise
LoadMeals(f) == IF f.exists THEN f.meals ELSE <<>>

\* meals[today].append(data), with meals[today] = [] first when the key is new
AppendMeal(meals, today, data) ==
    IF today \in DOMAIN meals
    THEN [meals EXCEPT ![today] = Append(@, data)]
    ELSE (today :> <<data>>) @@ meals

SaveOk == "Meal saved successfully!"
SaveFailed == "Save failed"

\* str.title() of the meal-type labels
Title(s) ==
    CASE s = "breakfast" -> "Breakfast"
      [] s = "lunch" -> "Lunch"
      [] s = "dinner" -> "Dinner"
      [] s = "snack" -> "Snack"
      [] s = "unknown" -> "Unknown"
      [] s = "meal" -> "Meal"

\* `for food in foods` with food.get(...) and f"{cals:.0f}" inside: does it run through?
FoodsRenderable(foods) ==
    CASE foods.t = "arr" ->
            \A i \in 1..Len(foods.a) :
                IsDict(foods.a[i]) /\ IsNumber(Get(foods.a[i], "nf_calories", Num(0)))
      [] foods.t = "str" -> foods.s = ""
      [] foods.t = "obj" -> DOMAIN foods.o = {}
      [] OTHER -> FALSE

\* The loop body of get_meal_history for one stored meal runs without raising
MealRenderable(meal) ==
    /\ IsDict(meal)
    /\ Get(meal, "meal_type", Str("meal")).t = "str"
    /\ IsDict(Get(meal, "nutrition_data", EmptyDict))
    /\ FoodsRenderable(Get(Get(meal, "nutrition_data", EmptyDict), "foods", Arr(<<>>)))

FoodLines(foods) ==
    IF foods.t = "arr"
    THEN [i \in 1..Len(foods.a) |->
            [l |-> "food",
             name |-> Get(foods.a[i], "food_name", Str("Unknown")),
             cal |-> Fmt0(ToFloat(Get(foods.a[i], "nf_calories", Num(0))))]]
    ELSE <<>>

\* The lines one stored meal adds to the history
MealLines(meal) ==
    <<[l |-> "type", text |-> Title(Get(meal, "meal_type", Str("meal")).s)]>>
    \o FoodLines(Get(Get(meal, "nutrition_data", EmptyDict), "foods", Arr(<<>>)))

RECURSIVE HistoryLines(_)
HistoryLines(ms) ==
    IF ms = <<>> THEN <<>> ELSE MealLines(Head(ms)) \o HistoryLines(Tail(ms))

\* The date key a timeframe token resolves to
ResolveDate(timeframe, day) ==
    IF timeframe = "today" THEN Strftime(day)
    ELSE IF timeframe = "yesterday" THEN Strftime(day - 1)
    ELSE timeframe

NoneYet == [kind |-> "none_yet"]
NoneFor(date) == [kind |-> "none_for", date |-> date]
HistoryError == [kind |-> "error"]

\* The mutant of get_meal_history: no `date not in meals` test, so a date without
\* meals raises KeyError inside the try.
get_meal_history_no_key_test(timeframe, f, day) ==
    IF ~f.exists THEN NoneYet
    ELSE LET meals == f.meals
             date == ResolveDate(timeframe, day)
         IN  IF date \notin DOMAIN meals THEN HistoryError
             ELSE IF \A i \in 1..Len(meals[date]) : MealRenderable(meals[date][i])
                  THEN [kind |-> "history", date |-> date,
                        lines |-> HistoryLines(meals[date])]
                  ELSE HistoryError

get_meal_history(timeframe, f, day) ==
    IF ~f.exists THEN NoneYet
    ELSE LET meals == f.meals
             date == ResolveDate(timeframe, day)
         IN  IF date \notin DOMAIN meals THEN NoneFor(date)
             ELSE IF \A i \in 1..Len(meals[date]) : MealRenderable(meals[date][i])
                  THEN [kind |-> "history", date |-> date,
                        lines |-> HistoryLines(meals[date])]
                  ELSE HistoryError

----------------------------------------------------------------------------
(* The agent orchestrator and the webhook server *)

Procs == {"p1", "p2"}
\* The process that serves POST /webhook (one worker, as `uvicorn bot:app` starts)
Servers == {"p1"}

T_start == <<"/", "s", "t", "a", "r", "t">>
T_idli == <<"i", "d", "l", "i">>

\* Message texts the chat platform delivers
Texts ==
    {T_start \o <<" ", "x">>,
     <<" ">> \o T_start,
     T_idli \o <<" ">>,
     <<"n", "o", " ">> \o T_start}

ChatIds == {70}
UserIds == {11, 12}

\* str(id) of the user ids
ToStr(n) == CASE n = 11 -> "11" [] n = 12 -> "12"

\* A "message" object; chat, from and text are each present or not
Message(chat, from, text) ==
    Obj((IF chat # 0 THEN [chat |-> Obj([id |-> Num(chat)])] ELSE <<>>)
        @@ (IF from # 0 THEN [from |-> Obj([id |-> Num(from)])] ELSE <<>>)
        @@ (IF text # <<"absent">> THEN [text |-> Str(text)] ELSE <<>>))

\* Update payloads: without a message, or with one
Payloads ==
    {Obj([update_id |-> Num(1)])}
    \cup {Obj([update_id |-> Num(1), message |-> Message(c, f, t)]) :
            c \in {0} \cup ChatIds, f \in {0} \cup UserIds, t \in Texts \cup {<<"absent">>}}

WELCOME == <<"Nutrition Agent Started! Tell me what you ate and I'll analyze it!">>
APOLOGY == <<"Sorry, I'm having trouble right now. Please try again!">>
\* f"Sorry, I encountered an error. Please try again! {str(e)}"
AgentError(e) == <<"Sorry, I encountered an error. Please try again! ", e>>

\* What executor.invoke can end with: a final answer, or an exception
Outputs == {<<"What meal was this? (breakfast/lunch/dinner/snack)">>,
            <<"NUTRITION BREAKDOWN">>}
Outcomes ==
    {[raised |-> FALSE, output |-> o, error |-> ""] : o \in Outputs}
    \cup {[raised |-> TRUE, output |-> <<>>, error |-> "Connection error."]}
NoOutcome == [raised |-> FALSE, output |-> <<>>, error |-> "pending"]

HumanMessage(content) == [role |-> "human", content |-> content]
AIMessage(content) == [role |-> "ai", content |-> content]

\* data["message"]["chat"]["id"] and data["message"]["from"]["id"] do not raise
FieldsPresent(data) ==
    LET m == data.o["message"]
    IN  /\ HasKey(m, "chat") /\ HasKey(m.o["chat"], "id")
        /\ HasKey(m, "from") /\ HasKey(m.o["from"], "id")

ChatIdOf(data) == data.o["message"].o["chat"].o["id"].n
UserIdOf(data) == ToStr(data.o["message"].o["from"].o["id"].n)
\* data["message"].get("text", "").strip()
TextOf(data) == Strip(Get(data.o["message"], "text", Str(<<>>)).s)

\* requests.post(.../sendMessage, json={chat_id, text, parse_mode})
SendMessage(chat_id, text) == [chat_id |-> chat_id, text |-> text]
SendOutcomes == {"ok", "raise"}

OK == "ok"
RAISED == "raised"

\* The mutant of AskReturn: ask_nutrition_agent without its try/except.
AskReturnNoCatch(r) ==
    [raised |-> r.raised, value |-> r.output]

\* What ask_nutrition_agent hands back: result["output"], or its own error text
AskReturn(r) ==
    [raised |-> FALSE,
     value |-> IF r.raised THEN AgentError(r.error) ELSE r.output]

\* The mutant of ConversationAfter: the turns are saved before the outcome is known.
ConversationAfterAlways(conv, user_id, user_input, r) ==
    [conv EXCEPT ![user_id] =
        @ \o <<HumanMessage(user_input), AIMessage(r.output)>>]

\* user_conversations after ask_nutrition_agent's "Save conversation" step
ConversationAfter(conv, user_id, user_input, r) ==
    IF r.raised THEN conv
    ELSE [conv EXCEPT ![user_id] =
            @ \o <<HumanMessage(user_input), AIMessage(r.output)>>]

\* The webhook's try/except around ask_nutrition_agent
WebhookReply(ask) == IF ask.raised THEN APOLOGY ELSE ask.value

\* An inbound POST /webhook, up to the return or the call of executor.invoke
Receive(p, data) ==
    /\ p \in Servers
    /\ pc[p] = "idle"
    /\ nreq < MaxRequests
    /\ nreq' = nreq + 1
    /\ req' = [req EXCEPT ![p] = data]
    /\ result' = [result EXCEPT ![p] = NoOutcome]
    /\ IF ~HasKey(data, "message")
       THEN /\ resp' = [resp EXCEPT ![p] = OK]
            /\ sent' = [sent EXCEPT ![p] = <<>>]
            /\ UNCHANGED <<pc, user_conversations>>
       ELSE IF ~FieldsPresent(data)
       THEN /\ resp' = [resp EXCEPT ![p] = RAISED]
            /\ sent' = [sent EXCEPT ![p] = <<>>]
            /\ UNCHANGED <<pc, user_conversations>>
       ELSE IF StartsWith(TextOf(data), T_start)
       THEN /\ \E so \in SendOutcomes :
                 resp' = [resp EXCEPT ![p] = IF so = "ok" THEN OK ELSE RAISED]
            /\ sent' = [sent EXCEPT ![p] = <<SendMessage(ChatIdOf(data), WELCOME)>>]
            /\ UNCHANGED <<pc, user_conversations>>
       ELSE /\ resp' = [resp EXCEPT ![p] = "none"]
            /\ sent' = [sent EXCEPT ![p] = <<>>]
            /\ pc' = [pc EXCEPT ![p] = "agent"]
            /\ user_conversations' =
                 [user_conversations EXCEPT ![p] =
                    IF UserIdOf(data) \in DOMAIN @ THEN @
                    ELSE (UserIdOf(data) :> <<>>) @@ @]
    /\ UNCHANGED <<now, file, loc, budget, last, saved, overlapped, toolIn, toolOut>>

\* executor.invoke ends; ask_nutrition_agent and then the webhook run to the end
ExecutorReturn(p, r, so) ==
    /\ pc[p] = "agent"
    /\ resp[p] = "none"
    /\ LET data == req[p]
           ask == AskReturn(r)
       IN  /\ user_conversations' =
                [user_conversations EXCEPT ![p] =
                    ConversationAfter(@, UserIdOf(data), TextOf(data), r)]
           /\ sent' = [sent EXCEPT ![p] =
                         <<SendMessage(ChatIdOf(data), WebhookReply(ask))>>]
    /\ result' = [result EXCEPT ![p] = r]
    /\ resp' = [resp EXCEPT ![p] = IF so = "ok" THEN OK ELSE RAISED]
    /\ pc' = [pc EXCEPT ![p] = "idle"]
    /\ UNCHANGED <<now, file, req, loc, budget, nreq, last, saved, overlapped,
                   toolIn, toolOut>>

----------------------------------------------------------------------------
(* Tool calls made by the executor while a request is in flight *)

I_idli ==
    Obj([food_name |-> Str("idli"), nf_calories |-> Dec(5850), nf_protein |-> Dec(75),
         nf_total_carbohydrate |-> Num(12), nf_total_fat |-> Dec(40),
         nf_dietary_fiber |-> Dec(50), nf_sugars |-> Dec(10)])
I_sambar ==
    Obj([food_name |-> Str("sambar"), nf_calories |-> Num(130), nf_protein |-> Num(6)])
I_chutney ==
    Obj([food_name |-> Str("chutney"), nf_calories |-> Dec(250), nf_protein |-> Dec(5),
         nf_total_carbohydrate |-> Num(3)])
I_rice == Obj([food_name |-> Str("rice"), nf_calories |-> Dec(20550), nf_sugars |-> Null])
I_roti == Obj([food_name |-> Str("roti"), nf_calories |-> Num(120), nf_protein |-> Num(3)])

\* Items of a "foods" list: full, partial, whole-numbered, empty, with a null field,
\* not an object
FoodItems == {I_idli, I_sambar, I_chutney, I_roti, EmptyDict, I_rice, Num(3)}

M_breakfast ==
    Obj([meal_type |-> Str("breakfast"),
         nutrition_data |-> Obj([foods |-> Arr(<<I_idli, I_sambar>>)])])
M_untyped == Obj([nutrition_data |-> Obj([foods |-> Arr(<<EmptyDict>>)])])
M_nofoods ==
    Obj([meal_type |-> Str("lunch"),
         nutrition_data |-> Obj([error |-> Str("404 Client Error")])])
\* nutrition_data carried as the lookup's raw text rather than as an object
M_rawtext ==
    Obj([meal_type |-> Str("dinner"), nutrition_data |-> Str("{\"foods\": []}")])

\* meal_info arguments of save_meal_data
MealInfos == {M_breakfast, M_untyped, M_nofoods, M_rawtext, BadJson}

\* timeframe arguments of get_meal_history
TimeFrames == {"today", "yesterday", "Today"} \cup {DATES[d] : d \in 1..MaxDay}

NoLocals == [data |-> Null, meals |-> <<>>]
NoCall == [p |-> "", op |-> "none", arg |-> Null, day |-> 0, pre |-> NoFile,
           out |-> ""]

\* save_meal_data up to the load of the file: json.loads, os.path.exists, json.load
SaveLoad(p, meal_info) ==
    /\ pc[p] = "agent"
    /\ budget > 0
    /\ budget' = budget - 1
    /\ IF meal_info.t = "bad"
       THEN /\ last' = [p |-> p, op |-> "save", arg |-> meal_info, day |-> now,
                        pre |-> file, out |-> SaveFailed]
            /\ UNCHANGED <<pc, loc, overlapped>>
       ELSE /\ loc' = [loc EXCEPT ![p] = [data |-> meal_info, meals |-> LoadMeals(file)]]
            /\ pc' = [pc EXCEPT ![p] = "saving"]
            /\ overlapped' = (overlapped \/ \E q \in Procs \ {p} : pc[q] = "saving")
            /\ UNCHANGED last
    /\ UNCHANGED <<now, file, req, user_conversations, sent, resp, result, nreq,
                   saved, toolIn, toolOut>>

\* The mutant of WrittenMeals: the save starts from an empty log, not from the file.
WrittenMealsNoLoad(l, today) == AppendMeal(<<>>, today, l.data)

\* What save_meal_data dumps: the meals it loaded, with data appended under today
WrittenMeals(l, today) == AppendMeal(l.meals, today, l.data)

\* save_meal_data from the clock read to the return: append, rewrite the file
SaveWrite(p) ==
    /\ pc[p] = "saving"
    /\ LET today == Strftime(now)
       IN  /\ file' = [exists |-> TRUE, meals |-> WrittenMeals(loc[p], today)]
           /\ saved' = Append(saved, [p |-> p, data |-> loc[p].data, date |-> today])
           /\ last' = [p |-> p, op |-> "save", arg |-> loc[p].data, day |-> now,
                       pre |-> file, out |-> SaveOk]
    /\ loc' = [loc EXCEPT ![p] = NoLocals]
    /\ pc' = [pc EXCEPT ![p] = "agent"]
    /\ UNCHANGED <<now, req, user_conversations, sent, resp, result, budget, nreq,
                   overlapped, toolIn, toolOut>>

\* get_meal_history, start to end
History(p, timeframe) ==
    /\ pc[p] = "agent"
    /\ budget > 0
    /\ budget' = budget - 1
    /\ last' = [p |-> p, op |-> "history", arg |-> Str(timeframe), day |-> now,
                pre |-> file, out |-> get_meal_history(timeframe, file, now)]
    /\ UNCHANGED <<now, file, pc, req, user_conversations, sent, resp, result, loc,
                   nreq, saved, overlapped, toolIn, toolOut>>

\* Midnight passes
Tick ==
    /\ now < MaxDay
    /\ now' = now + 1
    /\ UNCHANGED <<file, pc, req, user_conversations, sent, resp, result, loc,
                   budget, nreq, last, saved, overlapped, toolIn, toolOut>>

----------------------------------------------------------------------------
(* The pure tools, called on their own *)

W_breakfast == <<"B", "r", "e", "a", "k", "f", "a", "s", "t">>
W_morning == <<"m", "o", "r", "n", "i", "n", "g">>
W_lunch == <<"L", "U", "N", "C", "H">>
W_afternoon == <<"a", "f", "t", "e", "r", "n", "o", "o", "n">>
W_dinner == <<"d", "i", "n", "n", "e", "r">>
W_evening == <<"E", "v", "e", "n", "i", "n", "g">>
W_midnight == <<"m", "i", "d", "n", "i", "g", "h", "t">>
W_supper == <<"s", "u", "p", "p", "e", "r">>
W_snacking == <<"s", "n", "a", "c", "k", "i", "n", "g">>
W_brunch == <<"b", "r", "u", "n", "c", "h">>

Vocabulary ==
    {W_breakfast, W_morning, W_lunch, W_afternoon, W_dinner, W_evening, W_midnight,
     W_supper, W_snacking, W_brunch, T_idli}

\* " ".join(words)
RECURSIVE Join(_)
Join(words) ==
    IF words = <<>> THEN <<>>
    ELSE IF Len(words) = 1 THEN words[1]
    ELSE words[1] \o <<" ">> \o Join(Tail(words))

SeqsUpTo(S, n) == UNION {[1..k -> S] : k \in 0..n}

\* Inputs of detect_meal_type: up to MaxWords words of the vocabulary
DetectInputs == {Join(ws) : ws \in SeqsUpTo(Vocabulary, MaxWords)}

\* Inputs of format_nutrition_facts
FormatInputs ==
    {BadJson, Null, Num(0), Arr(<<>>), Arr(<<I_idli>>), Arr(<<Str("foods")>>),
     EmptyDict, Obj([error |-> Str("404 Client Error")]),
     Obj([foods |-> Null]), Obj([foods |-> EmptyDict]), Obj([foods |-> Str("idli")])}
    \cup {Obj([foods |-> Arr(fs)]) : fs \in SeqsUpTo(FoodItems, MaxFoods)}

NotCalled == [kind |-> "not called"]

DetectCall ==
    /\ toolOut = NotCalled
    /\ toolOut' = [kind |-> "label", label |-> detect_meal_type(toolIn)]
    /\ UNCHANGED <<now, file, pc, req, user_conversations, sent, resp, result, loc,
                   budget, nreq, last, saved, overlapped, toolIn>>

FormatCall ==
    /\ toolOut = NotCalled
    /\ toolOut' = format_nutrition_facts(toolIn)
    /\ UNCHANGED <<now, file, pc, req, user_conversations, sent, resp, result, loc,
                   budget, nreq, last, saved, overlapped, toolIn>>

----------------------------------------------------------------------------
(* Specifications *)

\* The state of a freshly started deployment: no log file, no conversations
Fresh ==
    /\ now = 2
    /\ file = NoFile
    /\ req = [p \in Procs |-> EmptyDict]
    /\ user_conversations = [p \in Procs |-> <<>>]
    /\ sent = [p \in Procs |-> <<>>]
    /\ resp = [p \in Procs |-> "none"]
    /\ result = [p \in Procs |-> NoOutcome]
    /\ loc = [p \in Procs |-> NoLocals]
    /\ nreq = 0
    /\ last = NoCall
    /\ saved = <<>>
    /\ overlapped = FALSE

\* The webhook server: requests arrive, the executor answers them and may save meals
\* on the way (get_meal_history and the clock change nothing the webhook reads; they
\* run in SpecStore)
Init ==
    /\ Fresh
    /\ pc = [p \in Procs |-> "idle"]
    /\ budget = MaxAgentTools
    /\ toolIn = Null
    /\ toolOut = NotCalled

Next ==
    \/ \E p \in Procs, data \in Payloads : Receive(p, data)
    \/ \E p \in Procs, r \in Outcomes, so \in SendOutcomes : ExecutorReturn(p, r, so)
    \/ \E p \in Procs, m \in MealInfos : SaveLoad(p, m)
    \/ \E p \in Procs : SaveWrite(p)

Spec == Init /\ [][Next]_vars

\* The tool layer while both processes are inside executor.invoke
InitStore ==
    /\ Fresh
    /\ pc = [p \in Procs |-> "agent"]
    /\ budget = MaxStoreOps
    /\ toolIn = Null
    /\ toolOut = NotCalled

NextStore ==
    \/ \E p \in Procs, m \in MealInfos : SaveLoad(p, m)
    \/ \E p \in Procs : SaveWrite(p)
    \/ \E p \in Procs, tf \in TimeFrames : History(p, tf)
    \/ Tick

SpecStore == InitStore /\ [][NextStore]_vars

InitDetect ==
    /\ Fresh
    /\ pc = [p \in Procs |-> "idle"]
    /\ budget = 0
    /\ toolIn \in DetectInputs
    /\ toolOut = NotCalled

SpecDetect == InitDetect /\ [][DetectCall]_vars

InitFormat ==
    /\ Fresh
    /\ pc = [p \in Procs |-> "idle"]
    /\ budget = 0
    /\ toolIn \in FormatInputs
    /\ toolOut = NotCalled

SpecFormat == InitFormat /\ [][FormatCall]_vars

----------------------------------------------------------------------------
(* Claims about the webhook server and the orchestrator (Spec) *)

\* telegram_webhook has ended for the request in req[p]
Done(p) == pc[p] = "idle" /\ resp[p] # "none"
HasMessage(data) == HasKey(data, "message")
\* The text field as delivered, before .strip()
RawText(data) == Get(data.o["message"], "text", Str(<<>>)).s

\* The message names the chat to answer
HasChat(data) ==
    /\ HasKey(data.o["message"], "chat")
    /\ HasKey(data.o["message"].o["chat"], "id")

\* C1: every request carrying a message (of a chat) gets exactly one sendMessage call
\* for that chat before the handler returns.
C1_ExactlyOneReply ==
    \A p \in Procs :
        (Done(p) /\ HasMessage(req[p]) /\ HasChat(req[p]))
            => /\ Len(sent[p]) = 1
               /\ sent[p][1].chat_id = ChatIdOf(req[p])

\* C2: telegram_webhook always ends by returning {"ok": true}, never in a raised
\* failure, whatever the payload and whatever the orchestrator and sendMessage do.
C2_AlwaysOkResponse ==
    \A p \in Procs : Done(p) => resp[p] = OK

\* C3: a message (of a chat) whose text starts with /start gets the welcome text as
\* its reply, whatever the other fields of the payload, and the orchestrator is not
\* invoked.
C3_StartYieldsWelcome ==
    \A p \in Procs :
        (/\ Done(p) /\ HasMessage(req[p]) /\ HasChat(req[p])
         /\ StartsWith(RawText(req[p]), T_start))
            => /\ Len(sent[p]) = 1
               /\ sent[p][1].text = WELCOME
               /\ result[p] = NoOutcome

\* The executor ran for the request in req[p] and the handler has ended
Answered(p) == Done(p) /\ result[p] # NoOutcome

\* C4 as claimed: when the executor raises the reply is the webhook's fixed apology;
\* when it does not, the reply is the text the orchestrator produced.
C4_WebhookApologyOnFailure ==
    \A p \in Procs :
        Answered(p) =>
            /\ Len(sent[p]) = 1
            /\ sent[p][1].text = IF result[p].raised THEN APOLOGY ELSE result[p].output

\* C4 as amended: when the executor raises, the reply is the orchestrator's own error
\* text ("Sorry, I encountered an error. Please try again! " and the error), never the
\* webhook's apology; when it does not, the reply is the text the orchestrator produced.
C4_OrchestratorErrorText ==
    \A p \in Procs :
        Answered(p) =>
            /\ sent[p] = <<SendMessage(ChatIdOf(req[p]),
                             IF result[p].raised THEN AgentError(result[p].error)
                             ELSE result[p].output)>>
            /\ sent[p][1].text # APOLOGY

C4_Witness ==
    \E p \in Procs :
        /\ Answered(p)
        /\ result[p].raised
        /\ sent[p][1].text = AgentError("Connection error.")

IsPrefix(a, b) == Len(a) <= Len(b) /\ SubSeq(b, 1, Len(a)) = a

\* Every history has even length and alternates human turn, assistant turn
ConvShape ==
    \A p \in Procs : \A u \in DOMAIN user_conversations[p] :
        LET h == user_conversations[p][u]
        IN  /\ Len(h) % 2 = 0
            /\ \A i \in 1..Len(h) :
                  h[i].role = IF i % 2 = 1 THEN "human" ELSE "ai"

\* What one step may do to the histories
ConvStep ==
    \A p \in Procs :
        LET old == user_conversations[p]
            new == user_conversations'[p]
        IN  /\ DOMAIN old \subseteq DOMAIN new
            /\ \A u \in DOMAIN old : IsPrefix(old[u], new[u])
            /\ \A u \in DOMAIN new \ DOMAIN old : new[u] = <<>>
            /\ IF pc[p] = "agent" /\ pc'[p] = "idle"
               THEN LET r == result'[p]
                        user == UserIdOf(req[p])
                    IN  IF r.raised THEN new = old
                        ELSE /\ new[user] =
                                  old[user] \o <<HumanMessage(TextOf(req[p])),
                                                 AIMessage(sent'[p][1].text)>>
                             /\ sent'[p][1].text = r.output
                             /\ \A v \in DOMAIN old \ {user} : new[v] = old[v]
               ELSE \A u \in DOMAIN old : new[u] = old[u]

\* C10: every history has even length and alternates human, assistant; a call that
\* succeeds appends exactly (input, output) to that user's history and to no other; a
\* call that fails appends nothing; no step removes or reorders turns.
C10_HistoryPairs == []ConvShape /\ [][ConvStep]_vars

C10_Witness ==
    \E p \in Procs :
        /\ DOMAIN user_conversations[p] = {"11", "12"}
        /\ Len(user_conversations[p]["11"]) = 2
        /\ user_conversations[p]["12"] = <<>>
        /\ Done(p) /\ result[p].raised

----------------------------------------------------------------------------
(* Claims about the meal log (SpecStore) *)

\* The records stored under a date key
StoredUnder(f, date) ==
    IF f.exists /\ date \in DOMAIN f.meals THEN f.meals[date] ELSE <<>>

\* The records of the saves that returned success under a date key, in order
RECURSIVE SavedUnder(_, _)
SavedUnder(log, date) ==
    IF log = <<>> THEN <<>>
    ELSE (IF Head(log).date = date THEN <<Head(log).data>> ELSE <<>>)
         \o SavedUnder(Tail(log), date)

RECURSIVE IsSubseq(_, _)
IsSubseq(a, b) ==
    IF a = <<>> THEN TRUE
    ELSE IF b = <<>> THEN FALSE
    ELSE IF Head(a) = Head(b) THEN IsSubseq(Tail(a), Tail(b))
    ELSE IsSubseq(a, Tail(b))

\* A record's food items as the history renders them: name and whole calories
RenderedItems(rec) ==
    IF /\ IsDict(rec)
       /\ IsDict(Get(rec, "nutrition_data", Null))
       /\ Get(rec.o["nutrition_data"], "foods", Null).t = "arr"
       /\ \A i \in 1..Len(rec.o["nutrition_data"].o["foods"].a) :
             LET food == rec.o["nutrition_data"].o["foods"].a[i]
             IN  IsDict(food) /\ IsNumber(Get(food, "nf_calories", Num(0)))
    THEN LET foods == rec.o["nutrition_data"].o["foods"].a
         IN  [i \in 1..Len(foods) |->
                [l |-> "food",
                 name |-> Get(foods[i], "food_name", Str("Unknown")),
                 cal |-> Fmt0(ToFloat(Get(foods[i], "nf_calories", Num(0))))]]
    ELSE <<>>

RECURSIVE RenderedItemsOf(_)
RenderedItemsOf(recs) ==
    IF recs = <<>> THEN <<>>
    ELSE RenderedItems(Head(recs)) \o RenderedItemsOf(Tail(recs))

OutputLines(out) == IF out.kind = "history" THEN out.lines ELSE <<>>

\* C5: after saves that returned success and did not overlap, get_meal_history("today")
\* shows the food items and calories of every record saved that day, in save order.
C5_SaveThenRead ==
    (last.op = "history" /\ last.arg = Str("today") /\ ~overlapped)
        => IsSubseq(RenderedItemsOf(SavedUnder(saved, DATES[last.day])),
                    OutputLines(last.out))

AllDates == {DATES[d] : d \in 1..Len(DATES)}

\* C9: when no two saves overlap, the file holds every record whose save returned
\* success, under its date and in save order; two overlapping saves can both return
\* success and leave only one of the two records (C9_LostUpdate).
C9_NoDropWithoutOverlap ==
    ~overlapped =>
        \A date \in AllDates : StoredUnder(file, date) = SavedUnder(saved, date)

C9_LostUpdate ==
    /\ \A p \in Procs : pc[p] = "agent"
    /\ Len(saved) = 2
    /\ saved[1].p # saved[2].p
    /\ saved[1].date = saved[2].date
    /\ saved[1].data # saved[2].data
    /\ StoredUnder(file, saved[1].date) = <<saved[2].data>>

----------------------------------------------------------------------------
(* Claims about the pure tools (SpecDetect, SpecFormat) *)

Labels == {"breakfast", "lunch", "dinner", "snack", "unknown"}

\* The keyword groups in priority order
Groups ==
    <<[label |-> "breakfast", words |-> BreakfastWords],
      [label |-> "lunch", words |-> LunchWords],
      [label |-> "dinner", words |-> DinnerWords],
      [label |-> "snack", words |-> SnackWords]>>

\* The groups with a keyword occurring in the text, case ignored
Matching(text) ==
    {g \in 1..Len(Groups) : \E w \in Groups[g].words : Contains(Lower(text), w)}

\* C7: detect_meal_type returns one of the five labels: that of the first group, in
\* the order breakfast, lunch, dinner, snack, with a keyword in the text; unknown only
\* when no group has one.
C7_DetectPriority ==
    toolOut.kind = "label" =>
        LET m == Matching(toolIn)
        IN  /\ toolOut.label \in Labels
            /\ (toolOut.label = "unknown") <=> (m = {})
            /\ m # {} =>
                 \E g \in m : /\ \A h \in m : g <= h
                              /\ toolOut.label = Groups[g].label

C7_Witness ==
    /\ toolOut.kind = "label"
    /\ Matching(toolIn) = {2, 3}
    /\ toolOut.label = "lunch"

\* A JSON number in hundredths, exactly
Hundredths(v) == IF v.t = "num" THEN 100 * v.n ELSE v.h

\* A nutrient field of an item in hundredths, absent counted as zero
FieldOrZero(food, key) == IF key \in DOMAIN food.o THEN Hundredths(food.o[key]) ELSE 0

\* The sum of a field over a set of positions of the list, in hundredths, in no order
RECURSIVE SumOver(_, _, _)
SumOver(foods, key, S) ==
    IF S = {} THEN 0
    ELSE LET i == CHOOSE i \in S : TRUE
         IN  FieldOrZero(foods[i], key) + SumOver(foods, key, S \ {i})

\* A foods list of objects whose nutrient fields are numbers or absent
NumericFoods(data) ==
    /\ data.t = "obj"
    /\ HasKey(data, "foods")
    /\ data.o["foods"].t = "arr"
    /\ Len(data.o["foods"].a) > 0
    /\ \A i \in 1..Len(data.o["foods"].a) :
          /\ data.o["foods"].a[i].t = "obj"
          /\ \A key \in NutrientKeys \cap DOMAIN data.o["foods"].a[i].o :
                IsNumber(data.o["foods"].a[i].o[key])

\* No foods list (no key, or null) or an empty one
FoodsMissingOrEmpty(data) ==
    /\ data.t = "obj"
    /\ \/ ~HasKey(data, "foods")
       \/ data.o["foods"] = Null
       \/ data.o["foods"] = Arr(<<>>)

Totals(out) ==
    <<out.calories, out.protein, out.carbs, out.fat, out.fiber, out.sugar>>

\* A printed number is the exact value s (in hundredths) rounded to the printed
\* precision, a tie rounded either way
RoundedInteger(printed, s) == 100 * printed - s \in -50..50
RoundedTenth(printed, s) == 10 * (10 * printed[1] + printed[2]) - s \in -5..5

\* The six printed totals are the sums of the fields over the items
TotalsAreSums(out, foods) ==
    LET all == 1..Len(foods)
    IN  /\ RoundedInteger(out.calories, SumOver(foods, "nf_calories", all))
        /\ RoundedTenth(out.protein, SumOver(foods, "nf_protein", all))
        /\ RoundedTenth(out.carbs, SumOver(foods, "nf_total_carbohydrate", all))
        /\ RoundedTenth(out.fat, SumOver(foods, "nf_total_fat", all))
        /\ RoundedTenth(out.fiber, SumOver(foods, "nf_dietary_fiber", all))
        /\ RoundedTenth(out.sugar, SumOver(foods, "nf_sugars", all))

Permuted(foods, perm) == [i \in 1..Len(foods) |-> foods[perm[i]]]

\* The totals printed for the list are the same in every order of its items
SameInEveryOrder(out, foods) ==
    \A perm \in Permutations(1..Len(foods)) :
        Totals(format_nutrition_facts(Obj([foods |-> Arr(Permuted(foods, perm))])))
          = Totals(out)

\* C8: the six totals are the sums of the fields over the items, absent counted as
\* zero, whatever the order of the items; a missing or empty foods list gives
\* "No nutrition data found.", never a breakdown.
C8_TotalsAreSums ==
    toolOut.kind # "not called" =>
        /\ FoodsMissingOrEmpty(toolIn) => toolOut = NoData
        /\ toolOut.kind = "breakdown" => NumericFoods(toolIn)
        /\ NumericFoods(toolIn) =>
             /\ toolOut.kind = "breakdown"
             /\ TotalsAreSums(toolOut, toolIn.o["foods"].a)
             /\ SameInEveryOrder(toolOut, toolIn.o["foods"].a)

\* Every listed value of every nutrient field is a whole number
WholeNumbers(foods) ==
    \A i \in 1..Len(foods) : \A key \in NutrientKeys : FieldOrZero(foods[i], key) % 100 = 0

\* What does hold of the totals: a missing or empty list gives the no-data text, a
\* breakdown is given exactly for the numeric lists, its totals are the sums
\* rounded to the printed precision, and lists of whole numbers print the same
\* totals in every order.
TotalsAreRoundedSums ==
    toolOut.kind # "not called" =>
        /\ FoodsMissingOrEmpty(toolIn) => toolOut = NoData
        /\ toolOut.kind = "breakdown" <=> NumericFoods(toolIn)
        /\ NumericFoods(toolIn) =>
             /\ TotalsAreSums(toolOut, toolIn.o["foods"].a)
             /\ WholeNumbers(toolIn.o["foods"].a) =>
                  SameInEveryOrder(toolOut, toolIn.o["foods"].a)

TotalsAreRoundedSums_Reached ==
    /\ toolOut.kind = "breakdown"
    /\ toolIn = Obj([foods |-> Arr(<<I_sambar, EmptyDict, I_roti>>)])
    /\ toolOut.calories = 250
    /\ toolOut.protein = <<9, 0>>

\* The order of the items changes a printed total: 0.75 + 0.05 + 0.05 g of protein
\* print as 0.9g, 0.05 + 0.05 + 0.75 g as 0.8g
OrderChangesTotal ==
    /\ toolOut.kind = "breakdown"
    /\ toolIn = Obj([foods |-> Arr(<<I_idli, I_chutney, I_chutney>>)])
    /\ toolOut.protein = <<0, 9>>
    /\ format_nutrition_facts(
          Obj([foods |-> Arr(<<I_chutney, I_chutney, I_idli>>)])).protein = <<0, 8>>

====
